---- MODULE Spec2Model ----
(***************************************************************************)
(* Model of WebApplication.py: the Products table in PostgreSQL, the       *)
(* startup script (setup_database, digital_signature_demo, the tips, the   *)
(* Flask server) and the /products handler get_products.                   *)
(***************************************************************************)
EXTENDS Integers, Sequences, FiniteSets, TLC

\* ------------------------------------------------------------- bounds
\* Rows the table holds when a WSGI server imports the module.
MaxRows == 2
\* Rows the table holds before the script first runs.
MaxStored == 1
\* Times the script is run against the same database.
MaxRuns == 2
\* Requests one run of the server receives (each on its own thread).
MaxRequests == 2

\* ------------------------------------------------------ Python values
None == [none |-> TRUE]
Str(s) == [str |-> s]
Raise(e) == [raise |-> e]
IsRaise(v) == "raise" \in DOMAIN v

\* ------------------------------------------------------ XML documents
\* A Details value is the text of an XML document, kept as its sequence of
\* lexical items: the declaration, start tags, end tags, character data.
Decl == [k |-> "decl", v |-> "1.0"]
Open(t) == [k |-> "open", v |-> t]
Close(t) == [k |-> "close", v |-> t]
Text(s) == [k |-> "text", v |-> s]
Leaf(t, s) == <<Open(t), Text(s), Close(t)>>

LaptopXml ==
    <<Decl, Open("product")>> \o Leaf("brand", "XYZ") \o <<Open("specs")>>
    \o Leaf("cpu", "Intel i7") \o Leaf("ram", "16GB") \o Leaf("storage", "512GB SSD")
    \o <<Close("specs"), Close("product")>>

SmartphoneXml ==
    <<Decl, Open("product")>> \o Leaf("brand", "ABC") \o <<Open("specs")>>
    \o Leaf("cpu", "Snapdragon 888") \o Leaf("ram", "8GB") \o Leaf("storage", "256GB")
    \o <<Close("specs"), Close("product")>>

SeedRows == << [Name |-> "Laptop", Details |-> LaptopXml],
               [Name |-> "Smartphone", Details |-> SmartphoneXml] >>

\* Documents other software may have stored in the table.
NoSpecsXml == <<Open("product")>> \o Leaf("brand", "QRS") \o <<Close("product")>>

NoRamXml ==
    <<Open("product"), Open("specs")>> \o Leaf("cpu", "M1") \o Leaf("storage", "1TB")
    \o <<Close("specs"), Close("product")>>

EmptyCpuXml ==
    <<Open("product"), Open("specs"), Open("cpu"), Close("cpu")>>
    \o Leaf("storage", "64GB") \o Leaf("ram", "4GB") \o Leaf("cpu", "A9")
    \o <<Close("specs"), Close("product")>>

MalformedXml ==
    <<Open("product"), Open("specs")>> \o Leaf("cpu", "Z80")
    \o <<Close("product")>>

DeepSpecsXml ==
    <<Open("product"), Open("info"), Open("specs")>>
    \o Leaf("cpu", "K6") \o Leaf("ram", "2GB") \o Leaf("storage", "20GB")
    \o <<Close("specs"), Close("info"), Close("product")>>

OtherRows == { [Name |-> "Tablet", Details |-> NoSpecsXml],
               [Name |-> "Camera", Details |-> NoRamXml],
               [Name |-> "Router", Details |-> EmptyCpuXml],
               [Name |-> "Printer", Details |-> MalformedXml],
               [Name |-> "Console", Details |-> DeepSpecsXml] }

RowPool == {SeedRows[1], SeedRows[2]} \cup OtherRows

\* ------------------------------------------------- xml.etree.ElementTree
Element(t) == [tag |-> t, text |-> None, children |-> <<>>]

\* Character data: the text of the innermost open element while it has no
\* child yet; after a child it is that child's tail, which the program
\* never reads.
AddText(e, s) ==
    IF e.children # <<>> THEN e
    ELSE [e EXCEPT !.text = IF e.text = None THEN Str(s) ELSE Str(e.text.str \o s)]

AddChild(e, c) == [e EXCEPT !.children = Append(e.children, c)]

RECURSIVE TreeBuilder(_, _, _, _)
\* The parse of toks from item i on, with the open elements in stack
\* (innermost last) and the finished document element in root.
TreeBuilder(toks, i, stack, root) ==
    LET n == Len(stack) IN
    IF i > Len(toks)
    THEN IF n = 0 /\ root # None THEN root ELSE Raise("ParseError")
    ELSE LET t == toks[i] IN
         CASE t.k = "decl" ->
                IF i = 1 THEN TreeBuilder(toks, i + 1, stack, root)
                ELSE Raise("ParseError")
           [] t.k = "open" ->
                IF n = 0 /\ root # None THEN Raise("ParseError")
                ELSE TreeBuilder(toks, i + 1, Append(stack, Element(t.v)), root)
           [] t.k = "text" ->
                IF n = 0 THEN Raise("ParseError")
                ELSE TreeBuilder(toks, i + 1,
                                 [stack EXCEPT ![n] = AddText(stack[n], t.v)], root)
           [] t.k = "close" ->
                IF n = 0 \/ stack[n].tag # t.v THEN Raise("ParseError")
                ELSE IF n = 1 THEN TreeBuilder(toks, i + 1, <<>>, stack[1])
                ELSE TreeBuilder(toks, i + 1,
                         [SubSeq(stack, 1, n - 1) EXCEPT
                              ![n - 1] = AddChild(stack[n - 1], stack[n])],
                         root)

\* ET.fromstring(details_xml)
fromstring(details_xml) == TreeBuilder(details_xml, 1, <<>>, None)

\* find taking the last match instead of the first.
find_last(elem, tag) ==
    LET hits == {j \in 1..Len(elem.children) : elem.children[j].tag = tag} IN
    IF hits = {} THEN None
    ELSE elem.children[CHOOSE j \in hits : \A h \in hits : j >= h]

\* elem.find(tag): the first direct child with that tag, or None.
find(elem, tag) ==
    LET hits == {j \in 1..Len(elem.children) : elem.children[j].tag = tag} IN
    IF hits = {} THEN None
    ELSE elem.children[CHOOSE j \in hits : \A h \in hits : j <= h]

\* One pass of the loop body of get_products: the record of a row, or the
\* exception the body raises on it.
row_record(row) ==
    LET root == fromstring(row.Details) IN
    IF IsRaise(root) THEN root
    ELSE LET specs == find(root, "specs") IN
         IF specs = None THEN Raise("AttributeError")
         ELSE LET cpu == find(specs, "cpu")
                  ram == find(specs, "ram")
                  storage == find(specs, "storage")
              IN IF cpu = None \/ ram = None \/ storage = None
                 THEN Raise("AttributeError")
                 ELSE [ProductID |-> row.ProductID, Name |-> row.Name,
                       CPU |-> cpu.text, RAM |-> ram.text, Storage |-> storage.text]

\* A handler that answers 404 when there is nothing to list.
jsonify_404(products) ==
    IF products = <<>> THEN [status |-> 404, json |-> products]
    ELSE [status |-> 200, json |-> products]

\* jsonify(products): the 200 response whose body is the list it is given.
jsonify(products) == [status |-> 200, json |-> products]

\* The framework's answer to an exception the view function lets escape.
ErrorResponse(e) == [status |-> 500, error |-> e]

\* ------------------------------------------------------------- state
VARIABLES
    db,        \* PostgreSQL, committed: [exists, rows, seq] of table Products
    hist,      \* history of the database since the first run
    run,       \* which run of the script this is
    pc,        \* the script's position
    conn,      \* setup_database's connection: None or its transaction's view
    count,     \* setup_database's local count
    calls,     \* calls of setup_database and digital_signature_demo in this run
    stdout,    \* what this run has printed
    demo,      \* digital_signature_demo's locals
    error,     \* the exception that ended this run, or None
    req,       \* the requests of this run: position, locals, response
    open       \* the requests whose connection is open

vars == <<db, hist, run, pc, conn, count, calls, stdout, demo, error, req, open>>

ReqIds == 1..MaxRequests

\* ---------------------------------------------------------- the table
RECURSIVE Tables(_)
\* The row lists of length n over RowPool.
Tables(n) ==
    IF n = 0 THEN {<<>>}
    ELSE {Append(t, r) : t \in Tables(n - 1), r \in RowPool}

\* SERIAL: row j of a table nobody deleted from has ProductID j.
Numbered(t) ==
    [j \in 1..Len(t) |-> [ProductID |-> j, Name |-> t[j].Name, Details |-> t[j].Details]]

NoTable == [exists |-> FALSE, rows |-> <<>>, seq |-> 0]

\* The database before the program touches it: no table, or a table of up
\* to max rows.
DbStates(max) ==
    {NoTable} \cup
    { [exists |-> TRUE, rows |-> Numbered(t), seq |-> Len(t)] :
          t \in UNION {Tables(n) : n \in 0..max} }

Table(d) == [exists |-> d.exists, rows |-> d.rows]

NoDemo == [private_key |-> 0, signature |-> None]
IdleReq == [pc |-> "idle", rows |-> <<>>, i |-> 0, products |-> <<>>, response |-> None]
NoCalls == [setup_database |-> 0, digital_signature_demo |-> 0]

ProcessStart ==
    /\ pc = "main"
    /\ conn = None
    /\ count = 0
    /\ calls = NoCalls
    /\ stdout = <<>>
    /\ demo = NoDemo
    /\ error = None
    /\ req = [r \in ReqIds |-> IdleReq]
    /\ open = {}

Init ==
    /\ db \in DbStates(MaxStored)
    /\ hist = [db0 |-> Table(db), returned |-> 0, inserts |-> 0, committed |-> FALSE]
    /\ run = 1
    /\ ProcessStart

\* ------------------------------------------------------- __main__, setup
print(line) == stdout' = Append(stdout, line)

\* A startup that tries setup_database again after an error.
Abort_retry(e) ==
    /\ pc' = "setup_connect"
    /\ error' = error
    /\ conn' = None

\* An exception nothing catches: the traceback ends the process, and the
\* server rolls back what the connection had not committed.
Abort(e) ==
    /\ pc' = "aborted"
    /\ error' = Raise(e)
    /\ conn' = None

main_setup ==
    /\ pc = "main"
    /\ print("Setting up database...")
    /\ pc' = "setup_connect"
    /\ UNCHANGED <<db, hist, run, conn, count, calls, demo, error, req, open>>

\* psycopg2.connect, conn.cursor: the transaction starts from the committed state.
setup_connect ==
    /\ pc = "setup_connect"
    /\ calls' = [calls EXCEPT !.setup_database = @ + 1]
    /\ \/ /\ conn' = db
          /\ pc' = "setup_create"
          /\ UNCHANGED error
       \/ Abort("OperationalError")
    /\ UNCHANGED <<db, hist, run, count, stdout, demo, req, open>>

\* A connection in autocommit mode: CREATE TABLE is durable at once.
setup_create_autocommit ==
    /\ pc = "setup_create"
    /\ \/ /\ conn' = IF conn.exists THEN conn
                     ELSE [exists |-> TRUE, rows |-> <<>>, seq |-> 0]
          /\ db' = conn'
          /\ pc' = "setup_count"
          /\ UNCHANGED error
       \/ /\ Abort("DatabaseError")
          /\ UNCHANGED db
    /\ UNCHANGED <<hist, run, count, calls, stdout, demo, req, open>>

\* CREATE TABLE IF NOT EXISTS, inside the transaction.
setup_create ==
    /\ pc = "setup_create"
    /\ \/ /\ conn' = IF conn.exists THEN conn
                     ELSE [exists |-> TRUE, rows |-> <<>>, seq |-> 0]
          /\ pc' = "setup_count"
          /\ UNCHANGED error
       \/ Abort("DatabaseError")
    /\ UNCHANGED <<db, hist, run, count, calls, stdout, demo, req, open>>

\* A setup that never learns the table has rows.
setup_count_zero ==
    /\ pc = "setup_count"
    /\ \/ /\ count' = 0
          /\ pc' = "setup_insert"
          /\ UNCHANGED <<conn, error>>
       \/ /\ Abort("DatabaseError")
          /\ UNCHANGED count
    /\ UNCHANGED <<db, hist, run, calls, stdout, demo, req, open>>

\* SELECT COUNT(*), fetchone()[0]
setup_count ==
    /\ pc = "setup_count"
    /\ \/ /\ count' = Len(conn.rows)
          /\ pc' = "setup_insert"
          /\ UNCHANGED <<conn, error>>
       \/ /\ Abort("DatabaseError")
          /\ UNCHANGED count
    /\ UNCHANGED <<db, hist, run, calls, stdout, demo, req, open>>

\* The rows INSERT adds to a table whose sequence stands at seq.
Inserted(seq) ==
    [j \in 1..Len(SeedRows) |->
        [ProductID |-> seq + j, Name |-> SeedRows[j].Name, Details |-> SeedRows[j].Details]]

\* An INSERT that does not look at count.
setup_insert_always ==
    /\ pc = "setup_insert"
    /\ \/ /\ conn' = [conn EXCEPT !.rows = @ \o Inserted(conn.seq),
                                    !.seq = @ + Len(SeedRows)]
          /\ db' = IF db.exists THEN [db EXCEPT !.seq = @ + Len(SeedRows)] ELSE db
          /\ pc' = "setup_commit"
          /\ UNCHANGED error
       \/ /\ Abort("DatabaseError")
          /\ UNCHANGED db
    /\ UNCHANGED <<hist, run, count, calls, stdout, demo, req, open>>

\* if count == 0: INSERT the sample rows.  The ids come from the table's
\* sequence, which a rollback does not rewind once the sequence is committed.
setup_insert ==
    /\ pc = "setup_insert"
    /\ IF count = 0
       THEN \/ /\ conn' = [conn EXCEPT !.rows = @ \o Inserted(conn.seq),
                                       !.seq = @ + Len(SeedRows)]
               /\ db' = IF db.exists THEN [db EXCEPT !.seq = @ + Len(SeedRows)] ELSE db
               /\ pc' = "setup_commit"
               /\ UNCHANGED error
            \/ /\ Abort("DatabaseError")
               /\ UNCHANGED db
       ELSE /\ pc' = "setup_commit"
            /\ UNCHANGED <<db, conn, error>>
    /\ UNCHANGED <<hist, run, count, calls, stdout, demo, req, open>>

Commit ==
    /\ db' = conn
    /\ hist' = [hist EXCEPT !.committed = TRUE,
                            !.inserts = IF conn.rows # db.rows THEN @ + 1 ELSE @]

\* conn.commit().  A commit that raises (the connection was lost) may or may
\* not have reached the server.
setup_commit ==
    /\ pc = "setup_commit"
    /\ \/ /\ Commit
          /\ pc' = "setup_close"
          /\ UNCHANGED <<conn, error>>
       \/ /\ Abort("OperationalError")
          /\ \/ Commit
             \/ UNCHANGED <<db, hist>>
    /\ UNCHANGED <<run, count, calls, stdout, demo, req, open>>

\* cur.close(), conn.close(), return
setup_close ==
    /\ pc = "setup_close"
    /\ conn' = None
    /\ hist' = [hist EXCEPT !.returned = @ + 1]
    /\ pc' = "setup_done"
    /\ UNCHANGED <<db, run, count, calls, stdout, demo, error, req, open>>

\* A startup that goes from the setup straight to the server.
main_setup_complete_skip ==
    /\ pc = "setup_done"
    /\ print("Database setup complete.")
    /\ pc' = "main_run"
    /\ UNCHANGED <<db, hist, run, conn, count, calls, demo, error, req, open>>

main_setup_complete ==
    /\ pc = "setup_done"
    /\ print("Database setup complete.")
    /\ pc' = "demo_generate"
    /\ UNCHANGED <<db, hist, run, conn, count, calls, demo, error, req, open>>

\* ------------------------------------------------ digital_signature_demo
Keys == {"pair A", "pair B"}
message == "Important transaction data"
public_key(private_key) == [pair |-> private_key.pair, part |-> "public"]
sign(private_key, m) == [pair |-> private_key.pair, message |-> m]
\* public_key.verify returns for the signature the matching private key
\* made of the same message and raises InvalidSignature for any other.
verify(key, signature, m) == signature.pair = key.pair /\ signature.message = m

demo_generate ==
    /\ pc = "demo_generate"
    /\ calls' = [calls EXCEPT !.digital_signature_demo = @ + 1]
    /\ print("--- Digital Signature Demo ---")
    /\ \E k \in Keys : demo' = [demo EXCEPT !.private_key = [pair |-> k, part |-> "private"]]
    /\ pc' = "demo_sign"
    /\ UNCHANGED <<db, hist, run, conn, count, error, req, open>>

demo_sign ==
    /\ pc = "demo_sign"
    /\ demo' = [demo EXCEPT !.signature = sign(demo.private_key, message)]
    /\ print("Message signed.")
    /\ pc' = "demo_verify"
    /\ UNCHANGED <<db, hist, run, conn, count, calls, error, req, open>>

\* A verify outside any try: the exception ends the process.
demo_verify_uncaught ==
    /\ pc = "demo_verify"
    /\ \E raised \in BOOLEAN :
          IF ~raised /\ verify(public_key(demo.private_key), demo.signature, message)
          THEN /\ print("Signature verified successfully!")
               /\ pc' = "main_tips"
               /\ UNCHANGED <<conn, error>>
          ELSE /\ Abort("InvalidSignature")
               /\ UNCHANGED stdout
    /\ demo' = NoDemo
    /\ UNCHANGED <<db, hist, run, count, calls, req, open>>

\* try: verify ... except Exception.  The handler catches InvalidSignature
\* and whatever else the library raises; either way the function returns.
demo_verify ==
    /\ pc = "demo_verify"
    /\ \E raised \in BOOLEAN :
          IF ~raised /\ verify(public_key(demo.private_key), demo.signature, message)
          THEN print("Signature verified successfully!")
          ELSE print("Signature verification failed:")
    /\ demo' = NoDemo
    /\ pc' = "main_tips"
    /\ UNCHANGED <<db, hist, run, conn, count, calls, error, req, open>>

main_tips ==
    /\ pc = "main_tips"
    /\ print("Performance Considerations:")
    /\ pc' = "main_run"
    /\ UNCHANGED <<db, hist, run, conn, count, calls, demo, error, req, open>>

\* print("Starting Flask server ..."), app.run(debug=True)
main_run ==
    /\ pc = "main_run"
    /\ print("Starting Flask server at http://127.0.0.1:5000/products")
    /\ pc' = "serving"
    /\ UNCHANGED <<db, hist, run, conn, count, calls, demo, error, req, open>>

\* The script is run again: a new process, the same database.
Restart ==
    /\ pc \in {"aborted", "serving"}
    /\ run < MaxRuns
    /\ run' = run + 1
    /\ pc' = "main"
    /\ conn' = None
    /\ count' = 0
    /\ calls' = NoCalls
    /\ stdout' = <<>>
    /\ demo' = NoDemo
    /\ error' = None
    /\ req' = [r \in ReqIds |-> IdleReq]
    /\ open' = {}
    /\ UNCHANGED <<db, hist>>

\* ------------------------------------------------- GET /products
\* The server takes requests once app.run has started it, or once a WSGI
\* server has imported the module (the __main__ block does not run then).
Listening == pc \in {"serving", "imported"}

InProgress(r) == req[r].pc \notin {"idle", "done"}

\* An exception leaves get_products: the framework answers 500.  Nothing
\* on this path calls conn.close(): the connection stays open for as long as
\* the interpreter keeps the frame (the debugger of app.run(debug=True) keeps
\* the traceback), and is closed only if and when the object is collected.
Fail(r, e) ==
    /\ req' = [req EXCEPT ![r].pc = "done", ![r].response = ErrorResponse(e)]
    /\ open' \in {open, open \ {r}}

\* conn = psycopg2.connect(**conn_params); cur = conn.cursor()
get_products_connect(r) ==
    /\ Listening
    /\ req[r].pc = "idle"
    /\ \A q \in ReqIds : q < r => req[q].pc # "idle"
    /\ \/ /\ req' = [req EXCEPT ![r].pc = "execute"]
          /\ open' = open \cup {r}
       \/ Fail(r, "OperationalError")
    /\ UNCHANGED <<db, hist, run, pc, conn, count, calls, stdout, demo, error>>

\* cur.execute("SELECT ProductID, Name, Details FROM Products");
\* rows = cur.fetchall(); products = []
get_products_fetch(r) ==
    /\ req[r].pc = "execute"
    /\ IF db.exists
       THEN /\ req' = [req EXCEPT ![r].pc = "loop", ![r].rows = db.rows,
                                  ![r].i = 0, ![r].products = <<>>]
            /\ UNCHANGED open
       ELSE Fail(r, "UndefinedTable")
    /\ UNCHANGED <<db, hist, run, pc, conn, count, calls, stdout, demo, error>>

\* A loop that skips the rows it cannot parse.
get_products_row_skip(r) ==
    /\ req[r].pc = "loop"
    /\ req[r].i < Len(req[r].rows)
    /\ LET rec == row_record(req[r].rows[req[r].i + 1]) IN
       IF IsRaise(rec)
       THEN req' = [req EXCEPT ![r].i = @ + 1]
       ELSE req' = [req EXCEPT ![r].i = @ + 1, ![r].products = Append(@, rec)]
    /\ UNCHANGED <<db, hist, run, pc, conn, count, calls, stdout, demo, error, open>>

\* for pid, name, details_xml in rows: ... products.append({...})
get_products_row(r) ==
    /\ req[r].pc = "loop"
    /\ req[r].i < Len(req[r].rows)
    /\ LET rec == row_record(req[r].rows[req[r].i + 1]) IN
       IF IsRaise(rec)
       THEN Fail(r, rec.raise)
       ELSE /\ req' = [req EXCEPT ![r].i = @ + 1, ![r].products = Append(@, rec)]
            /\ UNCHANGED open
    /\ UNCHANGED <<db, hist, run, pc, conn, count, calls, stdout, demo, error>>

\* cur.close(); conn.close()
get_products_close(r) ==
    /\ req[r].pc = "loop"
    /\ req[r].i = Len(req[r].rows)
    /\ req' = [req EXCEPT ![r].pc = "return"]
    /\ open' = open \ {r}
    /\ UNCHANGED <<db, hist, run, pc, conn, count, calls, stdout, demo, error>>

\* return jsonify(products)
get_products_return(r) ==
    /\ req[r].pc = "return"
    /\ req' = [req EXCEPT ![r].pc = "done", ![r].response = jsonify(req[r].products)]
    /\ UNCHANGED <<db, hist, run, pc, conn, count, calls, stdout, demo, error, open>>

get_products(r) ==
    \/ get_products_connect(r)
    \/ get_products_fetch(r)
    \/ get_products_row(r)
    \/ get_products_close(r)
    \/ get_products_return(r)

\* ------------------------------------------------------ specifications
Next ==
    \/ main_setup
    \/ setup_connect
    \/ setup_create
    \/ setup_count
    \/ setup_insert
    \/ setup_commit
    \/ setup_close
    \/ main_setup_complete
    \/ demo_generate
    \/ demo_sign
    \/ demo_verify
    \/ main_tips
    \/ main_run
    \/ Restart
    \/ \E r \in ReqIds : get_products(r)

\* python WebApplication.py
Spec == Init /\ [][Next]_vars

\* The module imported by a WSGI server: only the route is live.
InitImported ==
    /\ db \in DbStates(MaxRows)
    /\ hist = [db0 |-> Table(db), returned |-> 0, inserts |-> 0, committed |-> FALSE]
    /\ run = 1
    /\ pc = "imported"
    /\ conn = None
    /\ count = 0
    /\ calls = NoCalls
    /\ stdout = <<>>
    /\ demo = NoDemo
    /\ error = None
    /\ req = [r \in ReqIds |-> IdleReq]
    /\ open = {}

NextImported == \E r \in ReqIds : get_products(r)

SpecImported == InitImported /\ [][NextImported]_vars

\* ------------------------------------------------------------- claims
IsPrefix(s, t) == Len(s) <= Len(t) /\ SubSeq(t, 1, Len(s)) = s

\* What a table stores of each row besides the id.
Content(rows) == [j \in 1..Len(rows) |-> [Name |-> rows[j].Name, Details |-> rows[j].Details]]

StartedEmpty == hist.db0.rows = <<>>

\* C1: from an absent or empty table, once setup_database has returned at
\* least once the table holds exactly the two seed rows, Laptop then
\* Smartphone, however many calls followed; one INSERT at most was ever
\* committed, and a call made after one returned adds nothing to its
\* transaction.
C1_SetupIdempotent ==
    StartedEmpty =>
        /\ hist.inserts <= 1
        /\ hist.returned >= 1 =>
              /\ db.exists
              /\ Content(db.rows) = SeedRows
              /\ hist.inserts = 1
              /\ conn # None => conn.rows = db.rows

C1_Witness ==
    /\ StartedEmpty
    /\ hist.returned >= 2
    /\ Content(db.rows) = SeedRows

\* C9: once a setup has committed, no step of the program changes the
\* stored rows, and a step of a request never changes the database.
C9_RowsFrozen ==
    [][ /\ hist.committed => db' = db
        /\ req' # req /\ run' = run => db' = db ]_vars

C9_Witness ==
    /\ hist.committed
    /\ run = 2
    /\ \E r \in ReqIds : req[r].pc = "done" /\ req[r].response.status = 200
    /\ \E r \in ReqIds : req[r].pc = "done" /\ req[r].response.status = 500

PreCommit == {"setup_connect", "setup_create", "setup_count", "setup_insert"}

\* C10: the table changes only in the commit step of setup_database: a call
\* that fails before its commit leaves the table as it was, and the table
\* is at every moment either the one the first run found or one holding
\* exactly the two seed rows.
C10_SetupAtomic ==
    /\ [][(pc \in PreCommit) => Table(db') = Table(db)]_vars
    /\ [](Table(db) # hist.db0 =>
             /\ db.exists
             /\ hist.db0.rows = <<>>
             /\ Content(db.rows) = SeedRows)

C10_Witness ==
    /\ pc = "aborted"
    /\ error = Raise("DatabaseError")
    /\ hist.db0 = Table(NoTable)
    /\ ~db.exists

\* What a run prints, in order, when the verification ends as outcome.
Transcript(outcome) ==
    << "Setting up database...",
       "Database setup complete.",
       "--- Digital Signature Demo ---",
       "Message signed.",
       outcome,
       "Performance Considerations:",
       "Starting Flask server at http://127.0.0.1:5000/products" >>

Outcomes == {"Signature verified successfully!", "Signature verification failed:"}

SetupPcs == PreCommit \cup {"setup_commit", "setup_close"}
DemoPcs == {"demo_generate", "demo_sign", "demo_verify"}

\* C5: a run prints its lines in the one fixed order; setup_database is
\* running only between the first two, the signature demo only after the
\* second and before the tips, and a request is taken only when all seven
\* lines are out: the setup has committed and returned, the demo has
\* returned, each having been called once.
C5_StartupOrder ==
    /\ \E o \in Outcomes : IsPrefix(stdout, Transcript(o))
    /\ pc \in SetupPcs => Len(stdout) = 1
    /\ pc = "demo_generate" => Len(stdout) = 2
    /\ pc \in {"demo_sign", "demo_verify"} => Len(stdout) \in 3..4
    /\ pc = "main_tips" => Len(stdout) = 5
    /\ (pc = "serving" \/ \E r \in ReqIds : req[r].pc # "idle") =>
          /\ pc = "serving"
          /\ Len(stdout) = 7
          /\ hist.committed
          /\ hist.returned >= 1
          /\ calls = [setup_database |-> 1, digital_signature_demo |-> 1]
          /\ conn = None
          /\ demo = NoDemo

C5_Witness ==
    /\ pc = "serving"
    /\ \E r \in ReqIds : req[r].pc = "done" /\ req[r].response.status = 200

\* C6: a run that an error of setup_database ended has made one attempt at
\* setup_database, has not entered the signature demo, has printed nothing
\* after "Setting up database...", takes no request, and stays ended: the
\* only step left is a new run of the script.
C6_SetupErrorFatal ==
    /\ [](/\ calls.setup_database <= 1
          /\ error # None <=> pc = "aborted"
          /\ pc = "aborted" =>
                /\ calls = [setup_database |-> 1, digital_signature_demo |-> 0]
                /\ stdout = <<"Setting up database...">>
                /\ conn = None
                /\ \A r \in ReqIds : req[r] = IdleReq)
    /\ [][(pc = "aborted") => run' = run + 1]_vars

C6_Witness ==
    /\ pc = "aborted"
    /\ error = Raise("OperationalError")
    /\ run = 2

DemoStage ==
    CASE pc = "demo_generate" -> 1
      [] pc = "demo_sign" -> 2
      [] pc = "demo_verify" -> 3
      [] pc \in {"main_tips", "main_run", "serving"} -> 4
      [] OTHER -> 0

\* C7: the demo is entered once per run and goes Generate, Sign, Verify
\* forward only; at Sign the key exists and nothing is signed yet, at
\* Verify the signature is the key's signature of the message; after
\* Verify exactly one of the two outcome lines is printed, no exception is
\* pending, and the run goes on to the tips and the server.
C7_DemoStages ==
    /\ [](/\ calls.digital_signature_demo <= 1
          /\ pc = "demo_sign" =>
                demo.private_key.pair \in Keys /\ demo.signature = None
          /\ pc = "demo_verify" =>
                demo.signature = [pair |-> demo.private_key.pair, message |-> message]
          /\ Len(stdout) >= 3 => stdout[3] = "--- Digital Signature Demo ---"
          /\ Len(stdout) >= 4 => stdout[4] = "Message signed."
          /\ calls.digital_signature_demo = 1 /\ pc \notin DemoPcs =>
                /\ DemoStage = 4
                /\ error = None
                /\ Cardinality({j \in 1..Len(stdout) : stdout[j] \in Outcomes}) = 1)
    /\ [][run' = run => /\ DemoStage' >= DemoStage
                        /\ DemoStage' <= DemoStage + 1]_vars

C7_Witness ==
    /\ pc = "serving"
    /\ stdout = Transcript("Signature verification failed:")

\* The children of element e tagged tag, and the text of the first of them.
Tagged(e, tag) == {j \in 1..Len(e.children) : e.children[j].tag = tag}
TextAt(e, tag) ==
    e.children[CHOOSE j \in Tagged(e, tag) : \A h \in Tagged(e, tag) : j <= h].text

\* The document parses and its root has one specs child, which has cpu, ram
\* and storage children.
WellShaped(details) ==
    LET root == fromstring(details) IN
    /\ ~IsRaise(root)
    /\ Cardinality(Tagged(root, "specs")) = 1
    /\ \A j \in Tagged(root, "specs") :
          \A tag \in {"cpu", "ram", "storage"} : Tagged(root.children[j], tag) # {}

\* The document parses and its root has no specs child with cpu, ram and
\* storage children.
Lacking(details) ==
    LET root == fromstring(details) IN
    /\ ~IsRaise(root)
    /\ \A j \in Tagged(root, "specs") :
          \E tag \in {"cpu", "ram", "storage"} : Tagged(root.children[j], tag) = {}

\* The record the reader owes for a well-shaped row.
Expected(row) ==
    LET root == fromstring(row.Details)
        specs == root.children[CHOOSE j \in Tagged(root, "specs") : TRUE]
    IN [ProductID |-> row.ProductID, Name |-> row.Name,
        CPU |-> TextAt(specs, "cpu"), RAM |-> TextAt(specs, "ram"),
        Storage |-> TextAt(specs, "storage")]

\* The store answered request r's SELECT with rows.
Fetched(r) ==
    /\ req[r].pc = "done"
    /\ req[r].response \notin {ErrorResponse("OperationalError"), ErrorResponse("UndefinedTable")}

\* C2: a finished request whose SELECT returned only well-shaped rows
\* answers 200 with one record per row, in the rows' order, record j
\* carrying row j's ProductID and Name and the texts of its specs/cpu,
\* specs/ram, specs/storage; when the rows are the two seed rows the body
\* is the Laptop record (Intel i7, 16GB, 512GB SSD) then the Smartphone
\* record (Snapdragon 888, 8GB, 256GB).
C2_RecordsPerRow ==
    \A r \in ReqIds :
        LET rows == req[r].rows IN
        Fetched(r) /\ (\A j \in 1..Len(rows) : WellShaped(rows[j].Details)) =>
            /\ req[r].response =
                  [status |-> 200, json |-> [j \in 1..Len(rows) |-> Expected(rows[j])]]
            /\ Content(rows) = SeedRows =>
                  req[r].response.json =
                      << [ProductID |-> rows[1].ProductID, Name |-> "Laptop",
                          CPU |-> Str("Intel i7"), RAM |-> Str("16GB"),
                          Storage |-> Str("512GB SSD")],
                         [ProductID |-> rows[2].ProductID, Name |-> "Smartphone",
                          CPU |-> Str("Snapdragon 888"), RAM |-> Str("8GB"),
                          Storage |-> Str("256GB")] >>

C2_Witness ==
    \E r \in ReqIds :
        /\ Fetched(r)
        /\ Len(req[r].rows) = 2
        /\ req[r].rows[1].Details = EmptyCpuXml
        /\ req[r].rows[2].Details = SmartphoneXml
        /\ req[r].response.status = 200

\* C3: a request whose SELECT returned a row lacking the specs node, or
\* lacking cpu, ram or storage under it, never reaches its return
\* statement and never has a response with a body of records: it ends
\* with the 500 of the AttributeError or of a parse error on an earlier row.
C3_BadRowFailsRequest ==
    \A r \in ReqIds :
        (\E j \in 1..Len(req[r].rows) : Lacking(req[r].rows[j].Details)) =>
            /\ req[r].pc \in {"loop", "done"}
            /\ req[r].pc = "loop" => req[r].response = None
            /\ req[r].pc = "done" =>
                  req[r].response \in
                      {ErrorResponse("AttributeError"), ErrorResponse("ParseError")}

C3_Witness ==
    \E r \in ReqIds :
        /\ req[r].pc = "done"
        /\ Len(req[r].rows) = 2
        /\ req[r].rows[1].Details = LaptopXml
        /\ req[r].rows[2].Details = NoRamXml
        /\ req[r].products # <<>>
        /\ req[r].response = ErrorResponse("AttributeError")

\* C8: a finished request that found the table existing and empty answered
\* 200 with the empty array, unless it could not connect at all.
C8_EmptyTable ==
    \A r \in ReqIds :
        req[r].pc = "done" /\ db.exists /\ db.rows = <<>> =>
            req[r].response \in
                {[status |-> 200, json |-> <<>>], ErrorResponse("OperationalError")}

C8_Witness ==
    \E r \in ReqIds :
        /\ db.exists /\ db.rows = <<>>
        /\ req[r].pc = "done"
        /\ req[r].response = [status |-> 200, json |-> <<>>]

\* C4: an open connection belongs to a request still in progress, so no
\* connection is open when no request is in progress.
C4_ConnectionClosed ==
    \A r \in open : InProgress(r)

====
